---- MODULE Spec2Model ----
(***************************************************************************)
(* Model of the wisp-script transpiler: the recursive-descent Parser       *)
(* (src/parser.ts), the AST classes (src/unnamed/part_000, imported as     *)
(* './ast') and the TypeScriptGenerator (src/generator.ts).                *)
(*                                                                         *)
(* The cursor `current` is 0-based as in the source; TLA+ sequences are    *)
(* 1-based, so tokens[current] of the source is toks[cur + 1] here.        *)
(* Every parsing method is an operator from (toks, cur, nid) to a result   *)
(* record: `cur` is this.current when the method returns or throws, `nid`  *)
(* the number of AST objects allocated so far (object identity of `new`),  *)
(* `ok` tells a normal return from a thrown Error and `err` is the Error's *)
(* message, held as a sequence of characters.                              *)
(***************************************************************************)
EXTENDS Integers, Sequences, FiniteSets, TLC

VARIABLES tokens, pc, parsed, output

vars == <<tokens, pc, parsed, output>>

(***************************************************************************)
(* Bounds of the model.                                                    *)
(***************************************************************************)
MaxAssignLen == 5
MaxPrecedenceLen == 5
MaxStepLen == 4
MaxDeclarationLen == 4
MaxFoldLen == 4
MaxWalkLen == 5
MaxSyncLen == 4
MaxDepth == 2
MaxProgressLen == 4

(***************************************************************************)
(* JavaScript values (Token.literal, Literal.value, the evaluator's        *)
(* result).  A number is the rational n/d in lowest terms with d > 0, or   *)
(* 1/0 (Infinity), -1/0 (-Infinity), 0/0 (NaN).  Negative zero is not      *)
(* told from zero.                                                         *)
(***************************************************************************)
Null == [t |-> "null", n |-> 0, d |-> 1, s |-> "", b |-> FALSE]
Num(n, d) == [t |-> "number", n |-> n, d |-> d, s |-> "", b |-> FALSE]
Str(s) == [t |-> "string", n |-> 0, d |-> 1, s |-> s, b |-> FALSE]
Bool(b) == [t |-> "boolean", n |-> 0, d |-> 1, s |-> "", b |-> b]

(***************************************************************************)
(* Tokens.                                                                 *)
(***************************************************************************)
TokenType ==
    {"NUMBER", "STRING", "IDENTIFIER", "TRUE", "FALSE",
     "VAR", "PRINT", "FUNC", "RETURN", "END",
     "PLUS", "MINUS", "MULTIPLY", "DIVIDE",
     "EQUAL", "PLUS_EQUAL", "MINUS_EQUAL", "PLUS_PLUS", "MINUS_MINUS",
     "LEFT_PAREN", "RIGHT_PAREN", "COMMA", "DOT", "EOF"}

Token(type, lexeme, literal, line) ==
    [type |-> type, lexeme |-> lexeme, literal |-> literal, line |-> line]

(***************************************************************************)
(* The characters of a lexeme: the lexemes of the tokens the model feeds   *)
(* to the parser.  The EOF token's lexeme is the empty string.             *)
(***************************************************************************)
Chars(lexeme) ==
    CASE lexeme = "" -> <<>>
      [] lexeme = "+=" -> <<"+", "=">>
      [] lexeme = "-=" -> <<"-", "=">>
      [] lexeme = "++" -> <<"+", "+">>
      [] lexeme = "--" -> <<"-", "-">>
      [] lexeme = "12" -> <<"1", "2">>
      [] lexeme = "var" -> <<"v", "a", "r">>
      [] lexeme = "print" -> <<"p", "r", "i", "n", "t">>
      [] lexeme = "func" -> <<"f", "u", "n", "c">>
      [] lexeme = "return" -> <<"r", "e", "t", "u", "r", "n">>
      [] lexeme = "end" -> <<"e", "n", "d">>
      [] lexeme = "true" -> <<"t", "r", "u", "e">>
      [] lexeme = "false" -> <<"f", "a", "l", "s", "e">>
      [] lexeme = "\"s\"" -> <<"\"", "s", "\"">>
      [] lexeme = "_forever" -> <<"_", "f", "o", "r", "e", "v", "e", "r">>
      [] lexeme = "_on_collision" ->
           <<"_", "o", "n", "_", "c", "o", "l", "l", "i", "s", "i", "o", "n">>
      [] lexeme = "_on_clone_start" ->
           <<"_", "o", "n", "_", "c", "l", "o", "n", "e", "_", "s", "t", "a",
             "r", "t">>
      [] OTHER -> <<lexeme>>

(***************************************************************************)
(* The message texts of the parser's errors, as character sequences.       *)
(***************************************************************************)
MsgExpectFunctionName ==
    <<"E", "x", "p", "e", "c", "t", " ", "f", "u", "n", "c", "t", "i", "o",
      "n", " ", "n", "a", "m", "e", ".">>

MsgExpectParenAfterFunctionName ==
    <<"E", "x", "p", "e", "c", "t", " ", "'", "(", "'", " ", "a", "f", "t",
      "e", "r", " ", "f", "u", "n", "c", "t", "i", "o", "n", " ", "n", "a",
      "m", "e", ".">>

MsgExpectParameterName ==
    <<"E", "x", "p", "e", "c", "t", " ", "p", "a", "r", "a", "m", "e", "t",
      "e", "r", " ", "n", "a", "m", "e", ".">>

MsgExpectParenAfterParameters ==
    <<"E", "x", "p", "e", "c", "t", " ", "'", ")", "'", " ", "a", "f", "t",
      "e", "r", " ", "p", "a", "r", "a", "m", "e", "t", "e", "r", "s", ".">>

MsgExpectEnd ==
    <<"E", "x", "p", "e", "c", "t", " ", "'", "e", "n", "d", "'", " ", "a",
      "f", "t", "e", "r", " ", "f", "u", "n", "c", "t", "i", "o", "n", " ",
      "b", "o", "d", "y", ".">>

MsgExpectVariableName ==
    <<"E", "x", "p", "e", "c", "t", " ", "v", "a", "r", "i", "a", "b", "l",
      "e", " ", "n", "a", "m", "e", ".">>

MsgExpectParenAfterPrint ==
    <<"E", "x", "p", "e", "c", "t", " ", "'", "(", "'", " ", "a", "f", "t",
      "e", "r", " ", "'", "p", "r", "i", "n", "t", "'", ".">>

MsgExpectParenAfterValue ==
    <<"E", "x", "p", "e", "c", "t", " ", "'", ")", "'", " ", "a", "f", "t",
      "e", "r", " ", "v", "a", "l", "u", "e", ".">>

MsgInvalidAssignmentTarget ==
    <<"I", "n", "v", "a", "l", "i", "d", " ", "a", "s", "s", "i", "g", "n",
      "m", "e", "n", "t", " ", "t", "a", "r", "g", "e", "t", ".">>

MsgInvalidIncrementTarget ==
    <<"I", "n", "v", "a", "l", "i", "d", " ", "i", "n", "c", "r", "e", "m",
      "e", "n", "t", " ", "t", "a", "r", "g", "e", "t", ".">>

MsgInvalidDecrementTarget ==
    <<"I", "n", "v", "a", "l", "i", "d", " ", "d", "e", "c", "r", "e", "m",
      "e", "n", "t", " ", "t", "a", "r", "g", "e", "t", ".">>

MsgExpectPropertyName ==
    <<"E", "x", "p", "e", "c", "t", " ", "p", "r", "o", "p", "e", "r", "t",
      "y", " ", "n", "a", "m", "e", " ", "a", "f", "t", "e", "r", " ", "'",
      ".", "'", ".">>

MsgExpectParenAfterArguments ==
    <<"E", "x", "p", "e", "c", "t", " ", "'", ")", "'", " ", "a", "f", "t",
      "e", "r", " ", "a", "r", "g", "u", "m", "e", "n", "t", "s", ".">>

MsgExpectParenAfterExpression ==
    <<"E", "x", "p", "e", "c", "t", " ", "'", ")", "'", " ", "a", "f", "t",
      "e", "r", " ", "e", "x", "p", "r", "e", "s", "s", "i", "o", "n", ".">>

MsgUnexpectedToken ==
    <<"U", "n", "e", "x", "p", "e", "c", "t", "e", "d", " ", "t", "o", "k",
      "e", "n", ":", " ">>

MsgGot ==
    <<" ", "G", "o", "t", " ">>

(***************************************************************************)
(* AST classes.  `id` is the identity of the object `new` creates: two     *)
(* fields that hold the same object hold records with the same id.         *)
(***************************************************************************)
Binary(id, left, operator, right) ==
    [kind |-> "Binary", id |-> id, left |-> left, operator |-> operator,
     right |-> right]

Unary(id, operator, right) ==
    [kind |-> "Unary", id |-> id, operator |-> operator, right |-> right]

Literal(id, value) == [kind |-> "Literal", id |-> id, value |-> value]

Variable(id, name) == [kind |-> "Variable", id |-> id, name |-> name]

Get(id, object, name) ==
    [kind |-> "Get", id |-> id, object |-> object, name |-> name]

Assign(id, name, value) ==
    [kind |-> "Assign", id |-> id, name |-> name, value |-> value]

Set(id, object, name, value) ==
    [kind |-> "Set", id |-> id, object |-> object, name |-> name,
     value |-> value]

Call(id, callee, paren, args) ==
    [kind |-> "Call", id |-> id, callee |-> callee, paren |-> paren,
     args |-> args]

VarStmt(id, name, initializer) ==
    [kind |-> "Var", id |-> id, name |-> name, initializer |-> initializer]

ExpressionStmt(id, expression) ==
    [kind |-> "Expression", id |-> id, expression |-> expression]

PrintStmt(id, expression) ==
    [kind |-> "Print", id |-> id, expression |-> expression]

FunctionStmt(id, name, params, body) ==
    [kind |-> "Function", id |-> id, name |-> name, params |-> params,
     body |-> body]

\* Return.value is `Expr | null`: hasValue = FALSE stands for null.
ReturnStmt(id, keyword, hasValue, value) ==
    [kind |-> "Return", id |-> id, keyword |-> keyword,
     hasValue |-> hasValue, value |-> value]

(***************************************************************************)
(* Results of the parsing methods.  Returned: the value, the cursor and    *)
(* the allocation count after the call.  Thrown: the Error's message, the  *)
(* cursor now and the cursor where the Error was raised (`at`).            *)
(***************************************************************************)
NoValue == [kind |-> "none", id |-> 0]

Returned(val, cur, nid) ==
    [ok |-> TRUE, val |-> val, cur |-> cur, nid |-> nid, err |-> <<>>,
     at |-> 0]

Thrown(message, cur, nid) ==
    [ok |-> FALSE, val |-> NoValue, cur |-> cur, nid |-> nid,
     err |-> message, at |-> cur]

(***************************************************************************)
(* Parser: the cursor primitives.                                          *)
(***************************************************************************)
peek(toks, cur) == toks[cur + 1]

previous(toks, cur) == toks[cur]

isAtEnd(toks, cur) == peek(toks, cur).type = "EOF"

check(toks, cur, type) ==
    IF isAtEnd(toks, cur) THEN FALSE ELSE peek(toks, cur).type = type

\* advance without its `if (!this.isAtEnd())`.
advanceUnguarded(toks, cur) == cur + 1

\* advance: the cursor after the call (the token it returns is previous).
advance(toks, cur) == IF ~isAtEnd(toks, cur) THEN cur + 1 ELSE cur

\* match: whether one of `types` matched, and the cursor after the call.
match(toks, cur, types) ==
    IF \E i \in 1..Len(types) : check(toks, cur, types[i])
    THEN [hit |-> TRUE, cur |-> advance(toks, cur)]
    ELSE [hit |-> FALSE, cur |-> cur]

\* consume that reports the lexeme of the token before the cursor.
consumeGotPrevious(toks, cur, nid, type, message) ==
    IF check(toks, cur, type)
    THEN Returned(previous(toks, advance(toks, cur)), advance(toks, cur), nid)
    ELSE Thrown(message \o MsgGot \o Chars(previous(toks, cur).lexeme), cur,
                nid)

consume(toks, cur, nid, type, message) ==
    IF check(toks, cur, type)
    THEN Returned(previous(toks, advance(toks, cur)), advance(toks, cur), nid)
    ELSE Thrown(message \o MsgGot \o Chars(peek(toks, cur).lexeme), cur, nid)

SyncKinds == {"VAR", "PRINT", "FUNC", "RETURN"}

RECURSIVE synchronizeLoop(_, _)
synchronizeLoop(toks, cur) ==
    IF isAtEnd(toks, cur) THEN cur
    ELSE IF previous(toks, cur).type = "EOF" THEN cur
    ELSE IF peek(toks, cur).type \in SyncKinds THEN cur
    ELSE synchronizeLoop(toks, advance(toks, cur))

\* synchronize: the cursor after the call.
synchronize(toks, cur) == synchronizeLoop(toks, advance(toks, cur))

\* The operator token the desugarings synthesize.
SynthToken(type, lexeme) == Token(type, lexeme, Null, 0)

(***************************************************************************)
(* Parser: the grammar methods, in the order of the source.                *)
(***************************************************************************)
RECURSIVE declaration(_, _, _)
RECURSIVE functionBody(_, _, _, _)
RECURSIVE expression(_, _, _)
RECURSIVE assignment(_, _, _)
RECURSIVE unary(_, _, _)
RECURSIVE finishCall(_, _, _, _)

\* The do-while of functionDeclaration that collects the parameter names.
RECURSIVE functionParameters(_, _, _, _)
functionParameters(toks, cur, nid, parameters) ==
    LET WithParameter(p) ==
            IF ~p.ok THEN p
            ELSE LET m == match(toks, p.cur, <<"COMMA">>)
                 IN  IF m.hit
                     THEN functionParameters(toks, m.cur, nid,
                                             Append(parameters, p.val))
                     ELSE Returned(Append(parameters, p.val), m.cur, nid)
    IN  WithParameter(consume(toks, cur, nid, "IDENTIFIER",
                              MsgExpectParameterName))

functionDeclaration(toks, cur, nid) ==
    LET WithName(name) ==
          IF ~name.ok THEN name
          ELSE
          LET WithLeftParen(lp) ==
                IF ~lp.ok THEN lp
                ELSE
                LET WithParams(ps) ==
                      IF ~ps.ok THEN ps
                      ELSE
                      LET WithRightParen(rp) ==
                            IF ~rp.ok THEN rp
                            ELSE
                            LET WithBody(body) ==
                                  IF ~body.ok THEN body
                                  ELSE
                                  LET WithEnd(e) ==
                                        IF ~e.ok THEN e
                                        ELSE Returned(
                                               FunctionStmt(body.nid + 1,
                                                            name.val, ps.val,
                                                            body.val),
                                               e.cur, body.nid + 1)
                                  IN  WithEnd(consume(toks, body.cur,
                                                      body.nid, "END",
                                                      MsgExpectEnd))
                            IN  WithBody(functionBody(toks, rp.cur, nid,
                                                      <<>>))
                      IN  WithRightParen(
                            consume(toks, ps.cur, nid, "RIGHT_PAREN",
                                    MsgExpectParenAfterParameters))
                IN  WithParams(
                      IF ~check(toks, lp.cur, "RIGHT_PAREN")
                      THEN functionParameters(toks, lp.cur, nid, <<>>)
                      ELSE Returned(<<>>, lp.cur, nid))
          IN  WithLeftParen(consume(toks, name.cur, nid, "LEFT_PAREN",
                                    MsgExpectParenAfterFunctionName))
    IN  WithName(consume(toks, cur, nid, "IDENTIFIER",
                         MsgExpectFunctionName))

\* The while loop of functionDeclaration that parses the body until 'end'.
functionBody(toks, cur, nid, body) ==
    LET WithStatement(stmt) ==
            IF ~stmt.ok THEN stmt
            ELSE functionBody(toks, stmt.cur, stmt.nid,
                              Append(body, stmt.val))
    IN  IF ~check(toks, cur, "END") /\ ~isAtEnd(toks, cur)
        THEN WithStatement(declaration(toks, cur, nid))
        ELSE Returned(body, cur, nid)

varDeclaration(toks, cur, nid) ==
    LET WithName(name) ==
          IF ~name.ok THEN name
          ELSE
          LET m == match(toks, name.cur, <<"EQUAL">>)
              WithInitializer(initializer) ==
                IF ~initializer.ok THEN initializer
                ELSE Returned(VarStmt(initializer.nid + 1, name.val,
                                      initializer.val),
                              initializer.cur, initializer.nid + 1)
          IN  WithInitializer(
                IF m.hit THEN expression(toks, m.cur, nid)
                ELSE Returned(Literal(nid + 1, Null), m.cur, nid + 1))
    IN  WithName(consume(toks, cur, nid, "IDENTIFIER",
                         MsgExpectVariableName))

printStatement(toks, cur, nid) ==
    LET WithLeftParen(lp) ==
          IF ~lp.ok THEN lp
          ELSE
          LET WithValue(value) ==
                IF ~value.ok THEN value
                ELSE
                LET WithRightParen(rp) ==
                      IF ~rp.ok THEN rp
                      ELSE Returned(PrintStmt(value.nid + 1, value.val),
                                    rp.cur, value.nid + 1)
                IN  WithRightParen(
                      consume(toks, value.cur, value.nid, "RIGHT_PAREN",
                              MsgExpectParenAfterValue))
          IN  WithValue(expression(toks, lp.cur, nid))
    IN  WithLeftParen(consume(toks, cur, nid, "LEFT_PAREN",
                              MsgExpectParenAfterPrint))

\* returnStatement that also takes the end of the input or the keyword of
\* the next statement for the absence of a value.
returnStatementBare(toks, cur, nid) ==
    LET keyword == previous(toks, cur)
    IN  IF /\ ~check(toks, cur, "END")
           /\ ~isAtEnd(toks, cur)
           /\ peek(toks, cur).type \notin SyncKinds
        THEN LET value == expression(toks, cur, nid)
             IN  IF ~value.ok THEN value
                 ELSE Returned(ReturnStmt(value.nid + 1, keyword, TRUE,
                                          value.val),
                               value.cur, value.nid + 1)
        ELSE Returned(ReturnStmt(nid + 1, keyword, FALSE, NoValue), cur,
                      nid + 1)

returnStatement(toks, cur, nid) ==
    LET WithValue(value) ==
            IF ~value.ok THEN value
            ELSE Returned(ReturnStmt(value.nid + 1, previous(toks, cur),
                                     TRUE, value.val),
                          value.cur, value.nid + 1)
    IN  IF ~check(toks, cur, "END")
        THEN WithValue(expression(toks, cur, nid))
        ELSE Returned(ReturnStmt(nid + 1, previous(toks, cur), FALSE,
                                 NoValue),
                      cur, nid + 1)

expressionStatement(toks, cur, nid) ==
    LET WithExpression(expr) ==
            IF ~expr.ok THEN expr
            ELSE Returned(ExpressionStmt(expr.nid + 1, expr.val), expr.cur,
                          expr.nid + 1)
    IN  WithExpression(expression(toks, cur, nid))

statement(toks, cur, nid) ==
    LET mp == match(toks, cur, <<"PRINT">>)
        mr == match(toks, cur, <<"RETURN">>)
    IN  IF mp.hit THEN printStatement(toks, mp.cur, nid)
        ELSE IF mr.hit THEN returnStatement(toks, mr.cur, nid)
        ELSE expressionStatement(toks, cur, nid)

\* declaration that re-throws without synchronizing.
declarationWithoutSynchronize(toks, cur, nid) ==
    LET mf == match(toks, cur, <<"FUNC">>)
        mv == match(toks, cur, <<"VAR">>)
    IN  IF mf.hit THEN functionDeclaration(toks, mf.cur, nid)
        ELSE IF mv.hit THEN varDeclaration(toks, mv.cur, nid)
        ELSE statement(toks, cur, nid)

\* try { ... } catch (error) { this.synchronize(); throw error; }
declaration(toks, cur, nid) ==
    LET mf == match(toks, cur, <<"FUNC">>)
        mv == match(toks, cur, <<"VAR">>)
        Caught(r) ==
            IF r.ok THEN r
            ELSE [r EXCEPT !.cur = synchronize(toks, r.cur)]
    IN  Caught(IF mf.hit THEN functionDeclaration(toks, mf.cur, nid)
               ELSE IF mv.hit THEN varDeclaration(toks, mv.cur, nid)
               ELSE statement(toks, cur, nid))

\* The while loop of parse.
RECURSIVE parseLoop(_, _, _, _)
parseLoop(toks, cur, nid, statements) ==
    LET WithStatement(stmt) ==
            IF ~stmt.ok THEN stmt
            ELSE parseLoop(toks, stmt.cur, stmt.nid,
                           Append(statements, stmt.val))
    IN  IF ~isAtEnd(toks, cur)
        THEN WithStatement(declaration(toks, cur, nid))
        ELSE Returned(statements, cur, nid)

parse(toks) == parseLoop(toks, 0, 0, <<>>)

expression(toks, cur, nid) == assignment(toks, cur, nid)

\* assignTarget without its `else if (expr instanceof Get)` branch.
assignTargetVariableOnly(expr, value, cur, nid) ==
    IF expr.kind = "Variable"
    THEN Returned(Assign(nid + 1, expr.name, value), cur, nid + 1)
    ELSE Thrown(MsgInvalidAssignmentTarget, cur, nid)

\* The two branches after `const value = this.assignment()` of a plain `=`.
assignTarget(expr, value, cur, nid) ==
    IF expr.kind = "Variable"
    THEN Returned(Assign(nid + 1, expr.name, value), cur, nid + 1)
    ELSE IF expr.kind = "Get"
    THEN Returned(Set(nid + 1, expr.object, expr.name, value), cur, nid + 1)
    ELSE Thrown(MsgInvalidAssignmentTarget, cur, nid)

\* The same for `+=` (type PLUS, lexeme "+") and `-=` (MINUS, "-").
compoundTarget(expr, type, lexeme, value, cur, nid) ==
    IF expr.kind = "Variable"
    THEN Returned(
           Assign(nid + 2, expr.name,
                  Binary(nid + 1, expr, SynthToken(type, lexeme), value)),
           cur, nid + 2)
    ELSE IF expr.kind = "Get"
    THEN Returned(
           Set(nid + 2, expr.object, expr.name,
               Binary(nid + 1, expr, SynthToken(type, lexeme), value)),
           cur, nid + 2)
    ELSE Thrown(MsgInvalidAssignmentTarget, cur, nid)

RECURSIVE addition(_, _, _)
assignment(toks, cur, nid) ==
    LET WithTarget(expr) ==
          IF ~expr.ok THEN expr
          ELSE
          LET me == match(toks, expr.cur, <<"EQUAL">>)
              mp == match(toks, expr.cur, <<"PLUS_EQUAL">>)
              mm == match(toks, expr.cur, <<"MINUS_EQUAL">>)
              Assigned(value) ==
                  IF ~value.ok THEN value
                  ELSE assignTarget(expr.val, value.val, value.cur,
                                    value.nid)
              Compound(type, lexeme, value) ==
                  IF ~value.ok THEN value
                  ELSE compoundTarget(expr.val, type, lexeme, value.val,
                                      value.cur, value.nid)
          IN  IF me.hit
              THEN Assigned(assignment(toks, me.cur, expr.nid))
              ELSE IF mp.hit
              THEN Compound("PLUS", "+",
                            assignment(toks, mp.cur, expr.nid))
              ELSE IF mm.hit
              THEN Compound("MINUS", "-",
                            assignment(toks, mm.cur, expr.nid))
              ELSE expr
    IN  WithTarget(addition(toks, cur, nid))

RECURSIVE multiplication(_, _, _)
\* addition with `this.addition()` for its right operand: the operators
\* that follow are taken by the right operand.
additionLoopRightAssociative(toks, cur, nid, expr) ==
    LET m == match(toks, cur, <<"MINUS", "PLUS">>)
    IN  IF m.hit
        THEN LET operator == previous(toks, m.cur)
                 right == addition(toks, m.cur, nid)
             IN  IF ~right.ok THEN right
                 ELSE Returned(Binary(right.nid + 1, expr, operator,
                                      right.val),
                               right.cur, right.nid + 1)
        ELSE Returned(expr, cur, nid)

\* The while loop of addition.
RECURSIVE additionLoop(_, _, _, _)
additionLoop(toks, cur, nid, expr) ==
    LET m == match(toks, cur, <<"MINUS", "PLUS">>)
        WithRight(right) ==
            IF ~right.ok THEN right
            ELSE additionLoop(toks, right.cur, right.nid + 1,
                              Binary(right.nid + 1, expr,
                                     previous(toks, m.cur), right.val))
    IN  IF m.hit THEN WithRight(multiplication(toks, m.cur, nid))
        ELSE Returned(expr, cur, nid)

addition(toks, cur, nid) ==
    LET WithLeft(expr) ==
            IF ~expr.ok THEN expr
            ELSE additionLoop(toks, expr.cur, expr.nid, expr.val)
    IN  WithLeft(multiplication(toks, cur, nid))

\* The while loop of multiplication.
RECURSIVE multiplicationLoop(_, _, _, _)
multiplicationLoop(toks, cur, nid, expr) ==
    LET m == match(toks, cur, <<"DIVIDE", "MULTIPLY">>)
        WithRight(right) ==
            IF ~right.ok THEN right
            ELSE multiplicationLoop(toks, right.cur, right.nid + 1,
                                    Binary(right.nid + 1, expr,
                                           previous(toks, m.cur), right.val))
    IN  IF m.hit THEN WithRight(unary(toks, m.cur, nid))
        ELSE Returned(expr, cur, nid)

multiplication(toks, cur, nid) ==
    LET WithLeft(expr) ==
            IF ~expr.ok THEN expr
            ELSE multiplicationLoop(toks, expr.cur, expr.nid, expr.val)
    IN  WithLeft(unary(toks, cur, nid))

\* `++` / `--` on an operand, prefix or postfix: for a Variable,
\* new Assign(name, new Binary(operand, op, new Literal(1))); else the throw.
stepTarget(operand, type, lexeme, message, cur, nid) ==
    IF operand.kind = "Variable"
    THEN Returned(
           Assign(nid + 3, operand.name,
                  Binary(nid + 2, operand, SynthToken(type, lexeme),
                         Literal(nid + 1, Num(1, 1)))),
           cur, nid + 3)
    ELSE Thrown(message, cur, nid)

RECURSIVE postfix(_, _, _)
unary(toks, cur, nid) ==
    LET mn == match(toks, cur, <<"MINUS">>)
        mi == match(toks, cur, <<"PLUS_PLUS">>)
        md == match(toks, cur, <<"MINUS_MINUS">>)
        Negated(right) ==
            IF ~right.ok THEN right
            ELSE Returned(Unary(right.nid + 1, previous(toks, mn.cur),
                                right.val),
                          right.cur, right.nid + 1)
        Stepped(type, lexeme, message, right) ==
            IF ~right.ok THEN right
            ELSE stepTarget(right.val, type, lexeme, message, right.cur,
                            right.nid)
    IN  IF mn.hit THEN Negated(unary(toks, mn.cur, nid))
        ELSE IF mi.hit
        THEN Stepped("PLUS", "+", MsgInvalidIncrementTarget,
                     unary(toks, mi.cur, nid))
        ELSE IF md.hit
        THEN Stepped("MINUS", "-", MsgInvalidDecrementTarget,
                     unary(toks, md.cur, nid))
        ELSE postfix(toks, cur, nid)

RECURSIVE call(_, _, _)
\* postfix that leaves an operand that is no Variable as it is instead of
\* throwing.
postfixLenient(toks, cur, nid) ==
    LET expr == call(toks, cur, nid)
    IN  IF ~expr.ok THEN expr
        ELSE
        LET mi == match(toks, expr.cur, <<"PLUS_PLUS">>)
            md == match(toks, expr.cur, <<"MINUS_MINUS">>)
        IN  IF mi.hit /\ expr.val.kind = "Variable"
            THEN stepTarget(expr.val, "PLUS", "+", MsgInvalidIncrementTarget,
                            mi.cur, expr.nid)
            ELSE IF md.hit /\ expr.val.kind = "Variable"
            THEN stepTarget(expr.val, "MINUS", "-", MsgInvalidDecrementTarget,
                            md.cur, expr.nid)
            ELSE IF mi.hit THEN [expr EXCEPT !.cur = mi.cur]
            ELSE IF md.hit THEN [expr EXCEPT !.cur = md.cur]
            ELSE expr

postfix(toks, cur, nid) ==
    LET WithOperand(expr) ==
          IF ~expr.ok THEN expr
          ELSE
          LET mi == match(toks, expr.cur, <<"PLUS_PLUS">>)
              md == match(toks, expr.cur, <<"MINUS_MINUS">>)
          IN  IF mi.hit
              THEN stepTarget(expr.val, "PLUS", "+",
                              MsgInvalidIncrementTarget, mi.cur, expr.nid)
              ELSE IF md.hit
              THEN stepTarget(expr.val, "MINUS", "-",
                              MsgInvalidDecrementTarget, md.cur, expr.nid)
              ELSE expr
    IN  WithOperand(call(toks, cur, nid))

primary(toks, cur, nid) ==
    LET mn == match(toks, cur, <<"NUMBER">>)
        ms == match(toks, cur, <<"STRING">>)
        mt == match(toks, cur, <<"TRUE">>)
        mf == match(toks, cur, <<"FALSE">>)
        mi == match(toks, cur, <<"IDENTIFIER">>)
        ml == match(toks, cur, <<"LEFT_PAREN">>)
        Grouped(expr) ==
            IF ~expr.ok THEN expr
            ELSE
            LET Closed(rp) ==
                    IF ~rp.ok THEN rp
                    ELSE Returned(expr.val, rp.cur, expr.nid)
            IN  Closed(consume(toks, expr.cur, expr.nid, "RIGHT_PAREN",
                               MsgExpectParenAfterExpression))
    IN  IF mn.hit
        THEN Returned(Literal(nid + 1, previous(toks, mn.cur).literal),
                      mn.cur, nid + 1)
        ELSE IF ms.hit
        THEN Returned(Literal(nid + 1, previous(toks, ms.cur).literal),
                      ms.cur, nid + 1)
        ELSE IF mt.hit
        THEN Returned(Literal(nid + 1, Bool(TRUE)), mt.cur, nid + 1)
        ELSE IF mf.hit
        THEN Returned(Literal(nid + 1, Bool(FALSE)), mf.cur, nid + 1)
        ELSE IF mi.hit
        THEN Returned(Variable(nid + 1, previous(toks, mi.cur)), mi.cur,
                      nid + 1)
        ELSE IF ml.hit THEN Grouped(expression(toks, ml.cur, nid))
        ELSE Thrown(MsgUnexpectedToken \o Chars(peek(toks, cur).lexeme), cur,
                    nid)

\* The while (true) loop of call.
RECURSIVE callLoop(_, _, _, _)
callLoop(toks, cur, nid, expr) ==
    LET ml == match(toks, cur, <<"LEFT_PAREN">>)
        md == match(toks, cur, <<"DOT">>)
        Called(c) ==
            IF ~c.ok THEN c ELSE callLoop(toks, c.cur, c.nid, c.val)
        Got(name) ==
            IF ~name.ok THEN name
            ELSE callLoop(toks, name.cur, nid + 1,
                          Get(nid + 1, expr, name.val))
    IN  IF ml.hit THEN Called(finishCall(toks, ml.cur, nid, expr))
        ELSE IF md.hit
        THEN Got(consume(toks, md.cur, nid, "IDENTIFIER",
                         MsgExpectPropertyName))
        ELSE Returned(expr, cur, nid)

call(toks, cur, nid) ==
    LET WithPrimary(expr) ==
            IF ~expr.ok THEN expr
            ELSE callLoop(toks, expr.cur, expr.nid, expr.val)
    IN  WithPrimary(primary(toks, cur, nid))

\* The do-while of finishCall that collects the arguments.
RECURSIVE finishCallArgs(_, _, _, _)
finishCallArgs(toks, cur, nid, args) ==
    LET WithArgument(a) ==
            IF ~a.ok THEN a
            ELSE LET m == match(toks, a.cur, <<"COMMA">>)
                 IN  IF m.hit
                     THEN finishCallArgs(toks, m.cur, a.nid,
                                         Append(args, a.val))
                     ELSE Returned(Append(args, a.val), m.cur, a.nid)
    IN  WithArgument(expression(toks, cur, nid))

finishCall(toks, cur, nid, callee) ==
    LET WithArguments(args) ==
          IF ~args.ok THEN args
          ELSE
          LET Closed(paren) ==
                  IF ~paren.ok THEN paren
                  ELSE Returned(Call(args.nid + 1, callee, paren.val,
                                     args.val),
                                paren.cur, args.nid + 1)
          IN  Closed(consume(toks, args.cur, args.nid, "RIGHT_PAREN",
                             MsgExpectParenAfterArguments))
    IN  WithArguments(IF ~check(toks, cur, "RIGHT_PAREN")
                      THEN finishCallArgs(toks, cur, nid, <<>>)
                      ELSE Returned(<<>>, cur, nid))

(***************************************************************************)
(* Generator: toCamelCase, on character sequences.                         *)
(***************************************************************************)
UpperCaseLetters ==
    <<"A", "B", "C", "D", "E", "F", "G", "H", "I", "J", "K", "L", "M", "N",
      "O", "P", "Q", "R", "S", "T", "U", "V", "W", "X", "Y", "Z">>

LowerCaseLetters ==
    <<"a", "b", "c", "d", "e", "f", "g", "h", "i", "j", "k", "l", "m", "n",
      "o", "p", "q", "r", "s", "t", "u", "v", "w", "x", "y", "z">>

toLowerCase(c) ==
    IF \E i \in 1..Len(UpperCaseLetters) : UpperCaseLetters[i] = c
    THEN LowerCaseLetters[CHOOSE i \in 1..Len(UpperCaseLetters) :
                            UpperCaseLetters[i] = c]
    ELSE c

toUpperCase(c) ==
    IF \E i \in 1..Len(LowerCaseLetters) : LowerCaseLetters[i] = c
    THEN UpperCaseLetters[CHOOSE i \in 1..Len(LowerCaseLetters) :
                            LowerCaseLetters[i] = c]
    ELSE c

\* The characters the regular expression [\s_-] matches.
IsWordSeparator(c) == c \in {" ", "\t", "\n", "\r", "_", "-"}

\* str.split(/[\s_-]+/): the words between the runs of separators.
RECURSIVE splitWords(_, _, _, _)
splitWords(chars, words, word, inRun) ==
    IF chars = <<>> THEN Append(words, word)
    ELSE IF IsWordSeparator(Head(chars))
    THEN IF inRun THEN splitWords(Tail(chars), words, word, TRUE)
         ELSE splitWords(Tail(chars), Append(words, word), <<>>, TRUE)
    ELSE splitWords(Tail(chars), words, Append(word, Head(chars)), FALSE)

RECURSIVE joinWords(_)
joinWords(words) ==
    IF words = <<>> THEN <<>> ELSE Head(words) \o joinWords(Tail(words))

toCamelCase(str) ==
    LET processedStr == [i \in 1..Len(str) |-> toLowerCase(str[i])]
        words == splitWords(processedStr, <<>>, <<>>, FALSE)
        camelCaseWords ==
            [index \in 1..Len(words) |->
                IF index = 1 \/ words[index] = <<>> THEN words[index]
                ELSE <<toUpperCase(Head(words[index]))>>
                     \o Tail(words[index])]
    IN  joinWords(camelCaseWords)

\* The string of a character sequence.
RECURSIVE StringOf(_)
StringOf(chars) ==
    IF chars = <<>> THEN "" ELSE Head(chars) \o StringOf(Tail(chars))

(***************************************************************************)
(* Generator: numbers.  Sums and products of the model's numbers are exact *)
(* as they are in IEEE doubles of this size; a quotient is kept exact.     *)
(***************************************************************************)
Abs(n) == IF n < 0 THEN 0 - n ELSE n

Sign(n) == IF n < 0 THEN 0 - 1 ELSE IF n > 0 THEN 1 ELSE 0

RECURSIVE Gcd(_, _)
Gcd(a, b) == IF b = 0 THEN a ELSE Gcd(b, a % b)

\* The number n/d brought to lowest terms, d >= 0.
Normal(n, d) ==
    IF d = 0 THEN Num(Sign(n), 0)
    ELSE LET g == Gcd(Abs(n), Abs(d))
         IN  Num(Sign(d) * (n \div g), Abs(d) \div g)

NumAdd(l, r) ==
    IF l.d = 0 /\ r.d = 0
    THEN IF l.n = r.n THEN Num(l.n, 0) ELSE Num(0, 0)
    ELSE Normal(l.n * r.d + r.n * l.d, l.d * r.d)

NumNeg(r) == Num(0 - r.n, r.d)

NumMul(l, r) == Normal(l.n * r.n, l.d * r.d)

NumDiv(l, r) ==
    IF r.n = 0 /\ r.d = 0 THEN Num(0, 0)
    ELSE IF r.n = 0 THEN NumMul(l, Num(1, 0))
    ELSE NumMul(l, Num(Sign(r.n) * r.d, Abs(r.n)))

Digit(d) == <<"0", "1", "2", "3", "4", "5", "6", "7", "8", "9">>[d + 1]

RECURSIVE NaturalToString(_)
NaturalToString(n) ==
    IF n < 10 THEN Digit(n)
    ELSE NaturalToString(n \div 10) \o Digit(n % 10)

\* The digits after the decimal point of rem/d, at most k of them.
RECURSIVE FractionDigits(_, _, _)
FractionDigits(rem, d, k) ==
    IF rem = 0 \/ k = 0 THEN ""
    ELSE Digit((rem * 10) \div d) \o FractionDigits((rem * 10) % d, d, k - 1)

\* Number.prototype.toString: exact for the integers and the short decimal
\* fractions; a longer fraction is cut after 16 digits.
NumberToString(v) ==
    IF v.d = 0
    THEN IF v.n > 0 THEN "Infinity" ELSE IF v.n < 0 THEN "-Infinity" ELSE "NaN"
    ELSE (IF v.n < 0 THEN "-" ELSE "")
         \o NaturalToString(Abs(v.n) \div v.d)
         \o (IF v.d = 1 THEN ""
             ELSE "." \o FractionDigits(Abs(v.n) % v.d, v.d, 16))

\* value.toString() of a value that is neither null nor undefined.
ValueToString(v) ==
    IF v.t = "number" THEN NumberToString(v)
    ELSE IF v.t = "string" THEN v.s
    ELSE IF v.b THEN "true" ELSE "false"

(***************************************************************************)
(* Generator: the constant evaluator.                                      *)
(***************************************************************************)
RECURSIVE evaluateExpression(_)
evaluateExpression(expr) ==
    IF expr.kind = "Literal" THEN expr.value
    ELSE IF expr.kind = "Binary"
    THEN LET left == evaluateExpression(expr.left)
             right == evaluateExpression(expr.right)
         IN  IF left.t = "number" /\ right.t = "number"
             THEN CASE expr.operator.type = "PLUS" -> NumAdd(left, right)
                    [] expr.operator.type = "MINUS" ->
                         NumAdd(left, NumNeg(right))
                    [] expr.operator.type = "MULTIPLY" -> NumMul(left, right)
                    [] expr.operator.type = "DIVIDE" -> NumDiv(left, right)
                    [] OTHER -> Null
             ELSE Null
    ELSE IF expr.kind = "Unary"
    THEN LET right == evaluateExpression(expr.right)
         IN  IF right.t = "number" /\ expr.operator.type = "MINUS"
             THEN NumNeg(right)
             ELSE Null
    ELSE Null

(***************************************************************************)
(* Generator: the visitor.  A handler's result is the text it returns or   *)
(* the Error it throws, with the handlers that fired during the call, in   *)
(* the order they were entered: each a handler name and the node's id.     *)
(***************************************************************************)
MsgUnknownBinaryOperator ==
    <<"U", "n", "k", "n", "o", "w", "n", " ", "b", "i", "n", "a", "r", "y",
      " ", "o", "p", "e", "r", "a", "t", "o", "r", ":", " ">>

MsgUnknownUnaryOperator ==
    <<"U", "n", "k", "n", "o", "w", "n", " ", "u", "n", "a", "r", "y", " ",
      "o", "p", "e", "r", "a", "t", "o", "r", ":", " ">>

Emitted(text, fired) ==
    [ok |-> TRUE, text |-> text, fired |-> fired, err |-> <<>>]

Failed(message, fired) ==
    [ok |-> FALSE, text |-> "", fired |-> fired, err |-> message]

Fire(handler, node) == <<[handler |-> handler, node |-> node.id]>>

\* array.join(separator)
RECURSIVE join(_, _)
join(texts, separator) ==
    IF texts = <<>> THEN ""
    ELSE IF Len(texts) = 1 THEN Head(texts)
    ELSE Head(texts) \o separator \o join(Tail(texts), separator)

RECURSIVE acceptExpr(_)
RECURSIVE acceptStmt(_)

\* nodes.map(node => node.accept(this)): the texts, or the first throw.
RECURSIVE acceptEach(_, _, _, _)
acceptEach(nodes, isStmt, texts, fired) ==
    IF nodes = <<>>
    THEN [ok |-> TRUE, texts |-> texts, fired |-> fired, err |-> <<>>]
    ELSE LET r == IF isStmt THEN acceptStmt(Head(nodes))
                  ELSE acceptExpr(Head(nodes))
         IN  IF ~r.ok
             THEN [ok |-> FALSE, texts |-> texts, fired |-> fired \o r.fired,
                   err |-> r.err]
             ELSE acceptEach(Tail(nodes), isStmt, Append(texts, r.text),
                             fired \o r.fired)

visitBinaryExpr(expr) ==
    LET me == Fire("visitBinaryExpr", expr)
        left == acceptExpr(expr.left)
        right == acceptExpr(expr.right)
    IN  IF ~left.ok THEN Failed(left.err, me \o left.fired)
        ELSE IF ~right.ok
        THEN Failed(right.err, me \o left.fired \o right.fired)
        ELSE
        LET fired == me \o left.fired \o right.fired
        IN  CASE expr.operator.type = "PLUS" ->
                   Emitted("(" \o left.text \o " + " \o right.text \o ")",
                           fired)
              [] expr.operator.type = "MINUS" ->
                   Emitted("(" \o left.text \o " - " \o right.text \o ")",
                           fired)
              [] expr.operator.type = "MULTIPLY" ->
                   Emitted("(" \o left.text \o " * " \o right.text \o ")",
                           fired)
              [] expr.operator.type = "DIVIDE" ->
                   Emitted("(" \o left.text \o " / " \o right.text \o ")",
                           fired)
              [] OTHER ->
                   Failed(MsgUnknownBinaryOperator
                            \o Chars(expr.operator.lexeme), fired)

visitUnaryExpr(expr) ==
    LET me == Fire("visitUnaryExpr", expr)
        right == acceptExpr(expr.right)
    IN  IF ~right.ok THEN Failed(right.err, me \o right.fired)
        ELSE IF expr.operator.type = "MINUS"
        THEN Emitted("(-" \o right.text \o ")", me \o right.fired)
        ELSE Failed(MsgUnknownUnaryOperator \o Chars(expr.operator.lexeme),
                    me \o right.fired)

visitLiteralExpr(expr) ==
    LET me == Fire("visitLiteralExpr", expr)
    IN  IF expr.value.t = "null" THEN Emitted("null", me)
        ELSE IF expr.value.t = "number"
        THEN Emitted(NumberToString(expr.value), me)
        ELSE IF expr.value.t = "string"
        THEN Emitted("\"" \o expr.value.s \o "\"", me)
        ELSE Emitted(IF expr.value.b THEN "true" ELSE "false", me)

visitVariableExpr(expr) ==
    Emitted(expr.name.lexeme, Fire("visitVariableExpr", expr))

visitCallExpr(expr) ==
    LET me == Fire("visitCallExpr", expr)
        callee == acceptExpr(expr.callee)
    IN  IF ~callee.ok THEN Failed(callee.err, me \o callee.fired)
        ELSE
        LET args == acceptEach(expr.args, FALSE, <<>>, <<>>)
        IN  IF ~args.ok
            THEN Failed(args.err, me \o callee.fired \o args.fired)
            ELSE Emitted(callee.text \o "(" \o join(args.texts, ", ") \o ")",
                         me \o callee.fired \o args.fired)

visitGetExpr(expr) ==
    LET me == Fire("visitGetExpr", expr)
        object == acceptExpr(expr.object)
    IN  IF ~object.ok THEN Failed(object.err, me \o object.fired)
        ELSE Emitted(object.text \o "." \o expr.name.lexeme,
                     me \o object.fired)

visitAssignExpr(expr) ==
    LET me == Fire("visitAssignExpr", expr)
        value == acceptExpr(expr.value)
    IN  IF ~value.ok THEN Failed(value.err, me \o value.fired)
        ELSE Emitted(expr.name.lexeme \o " = " \o value.text,
                     me \o value.fired)

\* visitSetExpr that emits the value before the object.
visitSetExprValueFirst(expr) ==
    LET me == Fire("visitSetExpr", expr)
        value == acceptExpr(expr.value)
        object == acceptExpr(expr.object)
    IN  IF ~value.ok THEN Failed(value.err, me \o value.fired)
        ELSE IF ~object.ok
        THEN Failed(object.err, me \o value.fired \o object.fired)
        ELSE Emitted(object.text \o "." \o expr.name.lexeme \o " = "
                       \o value.text,
                     me \o value.fired \o object.fired)

visitSetExpr(expr) ==
    LET me == Fire("visitSetExpr", expr)
        object == acceptExpr(expr.object)
        value == acceptExpr(expr.value)
    IN  IF ~object.ok THEN Failed(object.err, me \o object.fired)
        ELSE IF ~value.ok
        THEN Failed(value.err, me \o object.fired \o value.fired)
        ELSE Emitted(object.text \o "." \o expr.name.lexeme \o " = "
                       \o value.text,
                     me \o object.fired \o value.fired)

\* visitVarStmt that folds its initializer as visitReturnStmt folds a value.
visitVarStmtFolding(stmt) ==
    LET me == Fire("visitVarStmt", stmt)
        evaluatedValue == evaluateExpression(stmt.initializer)
        initializer == acceptExpr(stmt.initializer)
    IN  IF evaluatedValue.t # "null"
        THEN Emitted("let " \o stmt.name.lexeme \o ": any = "
                       \o ValueToString(evaluatedValue) \o ";", me)
        ELSE IF ~initializer.ok
        THEN Failed(initializer.err, me \o initializer.fired)
        ELSE Emitted("let " \o stmt.name.lexeme \o ": any = "
                       \o initializer.text \o ";",
                     me \o initializer.fired)

visitVarStmt(stmt) ==
    LET me == Fire("visitVarStmt", stmt)
        initializer == acceptExpr(stmt.initializer)
    IN  IF ~initializer.ok
        THEN Failed(initializer.err, me \o initializer.fired)
        ELSE Emitted("let " \o stmt.name.lexeme \o ": any = "
                       \o initializer.text \o ";",
                     me \o initializer.fired)

visitExpressionStmt(stmt) ==
    LET me == Fire("visitExpressionStmt", stmt)
        expr == acceptExpr(stmt.expression)
    IN  IF ~expr.ok THEN Failed(expr.err, me \o expr.fired)
        ELSE Emitted(expr.text \o ";", me \o expr.fired)

visitPrintStmt(stmt) ==
    LET me == Fire("visitPrintStmt", stmt)
        expr == acceptExpr(stmt.expression)
    IN  IF ~expr.ok THEN Failed(expr.err, me \o expr.fired)
        ELSE Emitted("console.log(" \o expr.text \o ");", me \o expr.fired)

visitFunctionStmt(stmt) ==
    LET me == Fire("visitFunctionStmt", stmt)
        name == stmt.name.lexeme
        params == join([i \in 1..Len(stmt.params) |->
                          stmt.params[i].lexeme \o ": any"], ", ")
        each == acceptEach(stmt.body, TRUE, <<>>, <<>>)
    IN  IF ~each.ok THEN Failed(each.err, me \o each.fired)
        ELSE
        LET body == join([i \in 1..Len(each.texts) |->
                            "  " \o each.texts[i]], "\n")
        IN  IF name \in {"_forever", "_on_collision", "_on_clone_start"}
            THEN LET functionName ==
                         StringOf(toCamelCase(Tail(Chars(name))))
                 IN  Emitted(functionName \o "((" \o params \o ") => {\n"
                               \o body \o "\n})",
                             me \o each.fired)
            ELSE Emitted("function " \o name \o "(" \o params \o ") {\n"
                           \o body \o "\n}",
                         me \o each.fired)

visitReturnStmt(stmt) ==
    LET me == Fire("visitReturnStmt", stmt)
    IN  IF ~stmt.hasValue THEN Emitted("return;", me)
        ELSE
        LET evaluatedValue == evaluateExpression(stmt.value)
        IN  IF evaluatedValue.t # "null"
            THEN Emitted("return " \o ValueToString(evaluatedValue) \o ";",
                         me)
            ELSE LET value == acceptExpr(stmt.value)
                 IN  IF ~value.ok THEN Failed(value.err, me \o value.fired)
                     ELSE Emitted("return " \o value.text \o ";",
                                  me \o value.fired)

\* The accept methods of the expression classes.
acceptExpr(expr) ==
    CASE expr.kind = "Binary" -> visitBinaryExpr(expr)
      [] expr.kind = "Unary" -> visitUnaryExpr(expr)
      [] expr.kind = "Literal" -> visitLiteralExpr(expr)
      [] expr.kind = "Variable" -> visitVariableExpr(expr)
      [] expr.kind = "Call" -> visitCallExpr(expr)
      [] expr.kind = "Get" -> visitGetExpr(expr)
      [] expr.kind = "Assign" -> visitAssignExpr(expr)
      [] expr.kind = "Set" -> visitSetExpr(expr)

\* The accept methods of the statement classes.
acceptStmt(stmt) ==
    CASE stmt.kind = "Var" -> visitVarStmt(stmt)
      [] stmt.kind = "Expression" -> visitExpressionStmt(stmt)
      [] stmt.kind = "Print" -> visitPrintStmt(stmt)
      [] stmt.kind = "Function" -> visitFunctionStmt(stmt)
      [] stmt.kind = "Return" -> visitReturnStmt(stmt)

generate(statements) ==
    LET each == acceptEach(statements, TRUE, <<>>, <<>>)
    IN  IF ~each.ok THEN Failed(each.err, each.fired)
        ELSE Emitted(join(each.texts, "\n"), each.fired)

(***************************************************************************)
(* Inputs.  The lexer is outside the repository: the token sequences are   *)
(* drawn from bounded sets.  A symbol is a token without its line; the     *)
(* token at index i of an input is on line i, and the input ends with EOF. *)
(***************************************************************************)
Sym(type, lexeme, literal) ==
    [type |-> type, lexeme |-> lexeme, literal |-> literal]

SymX == Sym("IDENTIFIER", "x", Null)
SymY == Sym("IDENTIFIER", "y", Null)
SymA == Sym("IDENTIFIER", "a", Null)
SymB == Sym("IDENTIFIER", "b", Null)
SymC == Sym("IDENTIFIER", "c", Null)
SymOne == Sym("NUMBER", "1", Num(1, 1))
SymTwo == Sym("NUMBER", "2", Num(2, 1))
SymTwelve == Sym("NUMBER", "12", Num(12, 1))
SymStr == Sym("STRING", "\"s\"", Str("s"))
SymTrue == Sym("TRUE", "true", Null)
SymVar == Sym("VAR", "var", Null)
SymPrint == Sym("PRINT", "print", Null)
SymFunc == Sym("FUNC", "func", Null)
SymReturn == Sym("RETURN", "return", Null)
SymEnd == Sym("END", "end", Null)
SymPlus == Sym("PLUS", "+", Null)
SymMinus == Sym("MINUS", "-", Null)
SymMultiply == Sym("MULTIPLY", "*", Null)
SymEqual == Sym("EQUAL", "=", Null)
SymPlusEqual == Sym("PLUS_EQUAL", "+=", Null)
SymMinusEqual == Sym("MINUS_EQUAL", "-=", Null)
SymPlusPlus == Sym("PLUS_PLUS", "++", Null)
SymMinusMinus == Sym("MINUS_MINUS", "--", Null)
SymLeftParen == Sym("LEFT_PAREN", "(", Null)
SymRightParen == Sym("RIGHT_PAREN", ")", Null)
SymComma == Sym("COMMA", ",", Null)
SymDot == Sym("DOT", ".", Null)
SymEOF == Sym("EOF", "", Null)

\* The token sequence of a sequence of symbols, EOF appended.
Input(syms) ==
    [i \in 1..(Len(syms) + 1) |->
        LET y == IF i <= Len(syms) THEN syms[i] ELSE SymEOF
        IN  Token(y.type, y.lexeme, y.literal, i)]

\* All sequences over `alphabet` of length at most n.
SeqsUpTo(alphabet, n) == UNION {[1..k -> alphabet] : k \in 0..n}

\* A frame: the tokens put before and after the enumerated ones.
Frame(prefix, suffix) == [prefix |-> prefix, suffix |-> suffix]

Bare == Frame(<<>>, <<>>)

\* Assignments: targets, the three assignment operators, values.
AssignAlphabet ==
    {SymX, SymDot, SymEqual, SymPlusEqual, SymMinusEqual, SymMinus,
     SymLeftParen, SymRightParen}

\* Operator precedence: three identifiers and the operators, no grouping.
PrecedenceAlphabet ==
    {SymA, SymB, SymC, SymPlus, SymMinus, SymMultiply, SymEqual, SymDot}

\* Increments and decrements, prefix and postfix.
StepAlphabet ==
    {SymX, SymY, SymOne, SymDot, SymPlusPlus, SymMinusMinus, SymMinus,
     SymLeftParen, SymRightParen}

\* Declarations and statements: every consume site of the parser.
DeclarationAlphabet ==
    {SymX, SymOne, SymEqual, SymPlusPlus, SymMinusMinus, SymDot, SymLeftParen,
     SymRightParen, SymVar, SymPrint, SymFunc}

DeclarationFrames == {Bare, Frame(<<SymFunc, SymX, SymLeftParen>>, <<>>)}

\* An arithmetic expression as an expression statement, a return value, a
\* variable initializer and a print argument.
FoldAlphabet ==
    {SymX, SymTwo, SymTwelve, SymStr, SymPlus, SymMinus, SymMultiply}

FoldFrames ==
    {Bare,
     Frame(<<SymReturn>>, <<>>),
     Frame(<<SymReturn, SymX, SymPlus, SymLeftParen>>, <<SymRightParen>>),
     Frame(<<SymVar, SymX, SymEqual>>, <<>>),
     Frame(<<SymPrint, SymLeftParen>>, <<SymRightParen>>)}

\* Statements of every kind around member accesses, calls and assignments.
WalkAlphabet ==
    {SymX, SymOne, SymDot, SymMinus, SymPlusEqual, SymLeftParen,
     SymRightParen}

FuncHeader == <<SymFunc, SymX, SymLeftParen, SymRightParen>>

WalkFrames ==
    {Bare,
     Frame(<<SymReturn>>, <<>>),
     Frame(FuncHeader \o <<SymVar, SymX, SymReturn>>, <<SymEnd>>),
     Frame(<<SymPrint, SymLeftParen>>, <<SymRightParen, SymReturn, SymOne>>)}

\* d function headers, one inside the other.
RECURSIVE Nested(_)
Nested(d) == IF d = 0 THEN <<>> ELSE FuncHeader \o Nested(d - 1)

\* Statements inside up to MaxDepth open function bodies.
SyncAlphabet ==
    {SymX, SymLeftParen, SymRightParen, SymVar, SymPrint, SymReturn, SymEnd,
     SymFunc}

SyncFrames == {Frame(Nested(d), <<>>) : d \in 0..MaxDepth}

\* Statements, calls and function bodies, with EOF tokens before the last.
ProgressAlphabet ==
    {SymX, SymLeftParen, SymRightParen, SymReturn, SymFunc, SymEnd, SymEOF}

ProgressFrames == {Bare, Frame(FuncHeader, <<>>)}

(***************************************************************************)
(* The state machine: a Parser is constructed on the tokens, parse() runs, *)
(* and generate() runs on the statements it returned.                      *)
(***************************************************************************)
NotParsed == Thrown(<<>>, 0, 0)

NoOutput == Failed(<<>>, <<>>)

\* new Parser(tokens), on the tokens of a frame around at most n symbols of
\* `alphabet`.
InitOn(frames, alphabet, n) ==
    /\ \E f \in frames, q \in SeqsUpTo(alphabet, n) :
          tokens = Input(f.prefix \o q \o f.suffix)
    /\ pc = "constructed"
    /\ parsed = NotParsed
    /\ output = NoOutput

Parse ==
    /\ pc = "constructed"
    /\ parsed' = parse(tokens)
    /\ pc' = "parsed"
    /\ UNCHANGED <<tokens, output>>

Generate ==
    /\ pc = "parsed"
    /\ parsed.ok
    /\ output' = generate(parsed.val)
    /\ pc' = "generated"
    /\ UNCHANGED <<tokens, parsed>>

Next == Parse \/ Generate

Init == InitOn({Bare}, AssignAlphabet, MaxAssignLen)

Spec == Init /\ [][Next]_vars

InitPrecedence == InitOn({Bare}, PrecedenceAlphabet, MaxPrecedenceLen)

SpecPrecedence == InitPrecedence /\ [][Next]_vars

InitStep == InitOn({Bare}, StepAlphabet, MaxStepLen)

SpecStep == InitStep /\ [][Next]_vars

InitDeclaration ==
    InitOn(DeclarationFrames, DeclarationAlphabet, MaxDeclarationLen)

SpecDeclaration == InitDeclaration /\ [][Next]_vars

InitFold == InitOn(FoldFrames, FoldAlphabet, MaxFoldLen)

SpecFold == InitFold /\ [][Next]_vars

InitWalk == InitOn(WalkFrames, WalkAlphabet, MaxWalkLen)

SpecWalk == InitWalk /\ [][Next]_vars

InitSync == InitOn(SyncFrames, SyncAlphabet, MaxSyncLen)

SpecSync == InitSync /\ [][Next]_vars

InitProgress == InitOn(ProgressFrames, ProgressAlphabet, MaxProgressLen)

SpecProgress == InitProgress /\ [][Next]_vars

(***************************************************************************)
(* Walking an AST.                                                         *)
(***************************************************************************)
\* The nodes a node's fields hold, in the order of the fields.
Children(node) ==
    CASE node.kind = "Binary" -> <<node.left, node.right>>
      [] node.kind = "Unary" -> <<node.right>>
      [] node.kind = "Call" -> <<node.callee>> \o node.args
      [] node.kind = "Get" -> <<node.object>>
      [] node.kind = "Assign" -> <<node.value>>
      [] node.kind = "Set" -> <<node.object, node.value>>
      [] node.kind = "Var" -> <<node.initializer>>
      [] node.kind = "Expression" -> <<node.expression>>
      [] node.kind = "Print" -> <<node.expression>>
      [] node.kind = "Function" -> node.body
      [] node.kind = "Return" ->
           IF node.hasValue THEN <<node.value>> ELSE <<>>
      [] OTHER -> <<>>

\* The pre-order walk of a sequence of nodes along their fields.
RECURSIVE Walk(_)
Walk(nodes) ==
    IF nodes = <<>> THEN <<>>
    ELSE <<Head(nodes)>> \o Walk(Children(Head(nodes))) \o Walk(Tail(nodes))

\* A node without the identities of its objects: its structure.
RECURSIVE Structure(_)
Structure(node) ==
    LET Each(nodes) == [i \in 1..Len(nodes) |-> Structure(nodes[i])]
    IN  CASE node.kind = "Binary" ->
               Binary(0, Structure(node.left), node.operator,
                      Structure(node.right))
          [] node.kind = "Unary" ->
               Unary(0, node.operator, Structure(node.right))
          [] node.kind = "Literal" -> Literal(0, node.value)
          [] node.kind = "Variable" -> Variable(0, node.name)
          [] node.kind = "Call" ->
               Call(0, Structure(node.callee), node.paren, Each(node.args))
          [] node.kind = "Get" -> Get(0, Structure(node.object), node.name)
          [] node.kind = "Assign" ->
               Assign(0, node.name, Structure(node.value))
          [] node.kind = "Set" ->
               Set(0, Structure(node.object), node.name,
                   Structure(node.value))
          [] node.kind = "Var" ->
               VarStmt(0, node.name, Structure(node.initializer))
          [] node.kind = "Expression" ->
               ExpressionStmt(0, Structure(node.expression))
          [] node.kind = "Print" -> PrintStmt(0, Structure(node.expression))
          [] node.kind = "Function" ->
               FunctionStmt(0, node.name, node.params, Each(node.body))
          [] node.kind = "Return" ->
               ReturnStmt(0, node.keyword, node.hasValue,
                          IF node.hasValue THEN Structure(node.value)
                          ELSE NoValue)
          [] OTHER -> node

\* The cursor positions of the input.
Cursors == 0..(Len(tokens) - 1)

\* The nodes of the AST parse returned.
ParsedNodes == Walk(parsed.val)

(***************************************************************************)
(* C1.  assignment desugars by the shape of the left-hand side: for `=`,   *)
(* a Variable gives Assign(n, V) and a Get gives Set(o, n, V); for `+=`    *)
(* and `-=`, Assign(n, Binary(L, op, V)) and Set(o, n, Binary(L, op, V))   *)
(* with op the token (PLUS, "+", null, line 0) or (MINUS, "-", null,       *)
(* line 0); any other left-hand side fails with "Invalid assignment        *)
(* target." and allocates no node.  So the name of every Assign of a       *)
(* parsed AST is an IDENTIFIER token of the input, and the name of every   *)
(* Set is an IDENTIFIER token that follows a DOT.                          *)
(***************************************************************************)
AssignmentOperators == {"EQUAL", "PLUS_EQUAL", "MINUS_EQUAL"}

DesugaredValue(L, op, V) ==
    CASE op = "EQUAL" -> V
      [] op = "PLUS_EQUAL" ->
           Binary(0, L, [type |-> "PLUS", lexeme |-> "+", literal |-> Null,
                         line |-> 0], V)
      [] op = "MINUS_EQUAL" ->
           Binary(0, L, [type |-> "MINUS", lexeme |-> "-", literal |-> Null,
                         line |-> 0], V)

AssignmentTableAt(c) ==
    LET L == addition(tokens, c, 0)
    IN  (L.ok /\ peek(tokens, L.cur).type \in AssignmentOperators) =>
        LET op == peek(tokens, L.cur).type
            V == assignment(tokens, L.cur + 1, L.nid)
            R == assignment(tokens, c, 0)
            value == DesugaredValue(Structure(L.val), op, Structure(V.val))
        IN  V.ok =>
            CASE L.val.kind = "Variable" ->
                   /\ R.ok
                   /\ R.cur = V.cur
                   /\ Structure(R.val) = Assign(0, L.val.name, value)
              [] L.val.kind = "Get" ->
                   /\ R.ok
                   /\ R.cur = V.cur
                   /\ Structure(R.val)
                        = Set(0, Structure(L.val.object), L.val.name, value)
              [] OTHER ->
                   /\ ~R.ok
                   /\ R.err = MsgInvalidAssignmentTarget
                   /\ R.val = NoValue
                   /\ R.nid = V.nid

IsInputToken(token) ==
    /\ token.line \in 1..Len(tokens)
    /\ tokens[token.line] = token

AssignmentTargetClosure ==
    \A i \in 1..Len(ParsedNodes) :
        LET node == ParsedNodes[i]
        IN  /\ node.kind = "Assign" =>
                 IsInputToken(node.name) /\ node.name.type = "IDENTIFIER"
            /\ node.kind = "Set" =>
                 /\ IsInputToken(node.name)
                 /\ node.name.type = "IDENTIFIER"
                 /\ node.name.line > 1
                 /\ tokens[node.name.line - 1].type = "DOT"

AssignmentDesugaring ==
    pc = "parsed" =>
        /\ \A c \in Cursors : AssignmentTableAt(c)
        /\ parsed.ok => AssignmentTargetClosure

\* `x.x -= x` parsed to a Set whose value is the synthesized subtraction.
AssignmentDesugaringWitness ==
    /\ pc = "parsed"
    /\ parsed.ok
    /\ \E i \in 1..Len(ParsedNodes) :
          /\ ParsedNodes[i].kind = "Set"
          /\ ParsedNodes[i].value.kind = "Binary"
          /\ ParsedNodes[i].value.operator
               = [type |-> "MINUS", lexeme |-> "-", literal |-> Null,
                  line |-> 0]
          /\ ParsedNodes[i].value.left.kind = "Get"

(***************************************************************************)
(* C2.  The expression tree follows the precedence order assignment <      *)
(* addition < multiplication < unary < member access, with addition and    *)
(* multiplication left-associative and assignment right-associative: in an *)
(* input without grouping parentheses the right operand of a Binary is     *)
(* never a Binary of the same or a lower level, the left operand of a      *)
(* multiplication is never an addition, no operand of a Binary or Unary is *)
(* an assignment, the operand of a Unary is never a Binary and the object  *)
(* of a member access is a Variable or a member access; and `a - b - c`,   *)
(* `a + b * c`, `-a * b`, `a = b = c` parse to                             *)
(* Binary(Binary(a, -, b), -, c), Binary(a, +, Binary(b, *, c)),           *)
(* Binary(Unary(-, a), *, b) and                                           *)
(* Assign(a, Assign(b, c)).                                                *)
(***************************************************************************)
\* The symbols of the input, without the EOF.
Symbols ==
    [i \in 1..(Len(tokens) - 1) |->
        Sym(tokens[i].type, tokens[i].lexeme, tokens[i].literal)]

\* The structure of the one expression statement the input parsed to.
ParsedExpression == Structure(parsed.val[1].expression)

ParsesTo(syms, tree) ==
    (pc = "parsed" /\ Symbols = syms) =>
        /\ parsed.ok
        /\ Len(parsed.val) = 1
        /\ parsed.val[1].kind = "Expression"
        /\ ParsedExpression = tree

V(i) == Variable(0, tokens[i])

Additive == {"PLUS", "MINUS"}

Multiplicative == {"MULTIPLY", "DIVIDE"}

PrecedenceShape(node) ==
    /\ (node.kind = "Binary" /\ node.operator.type \in Multiplicative) =>
          /\ node.right.kind \notin {"Binary", "Assign", "Set"}
          /\ node.left.kind \notin {"Assign", "Set"}
          /\ node.left.kind = "Binary" =>
                node.left.operator.type \in Multiplicative
    /\ (node.kind = "Binary" /\ node.operator.type \in Additive) =>
          /\ node.right.kind \notin {"Assign", "Set"}
          /\ node.left.kind \notin {"Assign", "Set"}
          /\ node.right.kind = "Binary" =>
                node.right.operator.type \in Multiplicative
    /\ node.kind = "Unary" =>
          node.right.kind \notin {"Binary", "Assign", "Set"}
    /\ node.kind = "Get" =>
          node.object.kind \in {"Variable", "Get"}

PrecedenceAndAssociativity ==
    /\ (pc = "parsed" /\ parsed.ok) =>
          \A i \in 1..Len(ParsedNodes) : PrecedenceShape(ParsedNodes[i])
    /\ ParsesTo(<<SymA, SymMinus, SymB, SymMinus, SymC>>,
                Binary(0, Binary(0, V(1), tokens[2], V(3)), tokens[4], V(5)))
    /\ ParsesTo(<<SymA, SymPlus, SymB, SymMultiply, SymC>>,
                Binary(0, V(1), tokens[2], Binary(0, V(3), tokens[4], V(5))))
    /\ ParsesTo(<<SymMinus, SymA, SymMultiply, SymB>>,
                Binary(0, Unary(0, tokens[1], V(2)), tokens[3], V(4)))
    /\ ParsesTo(<<SymA, SymEqual, SymB, SymEqual, SymC>>,
                Assign(0, tokens[1], Assign(0, tokens[3], V(5))))

\* `a - b - c` has been parsed.
PrecedenceAndAssociativityWitness ==
    /\ pc = "parsed"
    /\ parsed.ok
    /\ Symbols = <<SymA, SymMinus, SymB, SymMinus, SymC>>
    /\ ParsedExpression.left.kind = "Binary"

(***************************************************************************)
(* C3.  The prefix and the postfix form of `++` and `--` build the same    *)
(* tree: `++x` and `x++` parse to                                          *)
(* Assign(x, Binary(Variable(x), PLUS, Literal(1))), `--x` and `x--` to    *)
(* Assign(x, Binary(Variable(x), MINUS, Literal(1))), the operator being   *)
(* the token (PLUS, "+", null, line 0) or (MINUS, "-", null, line 0); and  *)
(* wherever `++` or `--` is applied, before an operand parsed by unary or  *)
(* after an operand parsed by call, a Variable operand gives that tree and *)
(* any other operand fails with "Invalid increment target." or "Invalid    *)
(* decrement target.".                                                     *)
(***************************************************************************)
StepOperators == {"PLUS_PLUS", "MINUS_MINUS"}

StepTree(name, op) ==
    Assign(0, name,
           Binary(0, Variable(0, name),
                  IF op = "PLUS_PLUS"
                  THEN [type |-> "PLUS", lexeme |-> "+", literal |-> Null,
                        line |-> 0]
                  ELSE [type |-> "MINUS", lexeme |-> "-", literal |-> Null,
                        line |-> 0],
                  Literal(0, Num(1, 1))))

StepMessage(op) ==
    IF op = "PLUS_PLUS" THEN MsgInvalidIncrementTarget
    ELSE MsgInvalidDecrementTarget

\* What applying op to a parsed operand has to give as r.
StepResult(r, operand, op, cur) ==
    IF operand.val.kind = "Variable"
    THEN /\ r.ok
         /\ Structure(r.val) = StepTree(operand.val.name, op)
         /\ r.cur = cur
    ELSE /\ ~r.ok
         /\ r.err = StepMessage(op)

PrefixStepAt(c) ==
    peek(tokens, c).type \in StepOperators =>
        LET operand == unary(tokens, c + 1, 0)
        IN  operand.ok =>
                StepResult(unary(tokens, c, 0), operand,
                           peek(tokens, c).type, operand.cur)

PostfixStepAt(c) ==
    LET operand == call(tokens, c, 0)
    IN  (operand.ok /\ peek(tokens, operand.cur).type \in StepOperators) =>
            StepResult(postfix(tokens, c, 0), operand,
                       peek(tokens, operand.cur).type, operand.cur + 1)

\* An identifier and a step operator, in either order.
IsStepInput(operand, op) ==
    /\ Len(tokens) = 3
    /\ tokens[operand].type = "IDENTIFIER"
    /\ tokens[op].type \in StepOperators

\* The input with its two symbols the other way round.
Swapped == Input(<<Symbols[2], Symbols[1]>>)

StepForm(operand, op) ==
    IsStepInput(operand, op) =>
        /\ parsed.ok
        /\ Len(parsed.val) = 1
        /\ parsed.val[1].kind = "Expression"
        /\ ParsedExpression = StepTree(tokens[operand], tokens[op].type)
        /\ LET other == parse(Swapped)
           IN  /\ other.ok
               /\ Len(other.val) = 1
               /\ other.val[1].kind = "Expression"
               /\ Structure(other.val[1].expression)
                    = StepTree([tokens[operand] EXCEPT !.line = op],
                               tokens[op].type)

IncrementIndifference ==
    pc = "parsed" =>
        /\ StepForm(1, 2)
        /\ StepForm(2, 1)
        /\ \A c \in Cursors : PrefixStepAt(c) /\ PostfixStepAt(c)

\* `x++` has been parsed.
IncrementIndifferenceWitness ==
    /\ pc = "parsed"
    /\ IsStepInput(1, 2)
    /\ tokens[2].type = "PLUS_PLUS"
    /\ parsed.ok
    /\ ParsedExpression.kind = "Assign"

(***************************************************************************)
(* C4.  Folding happens at a Return statement only, and only for the whole *)
(* value: a Return whose value is built from number literals, Binary PLUS, *)
(* MINUS, MULTIPLY and Unary MINUS alone is emitted as "return ", the      *)
(* decimal text of the value's arithmetic value and ";"; a Return whose    *)
(* value holds a Variable, Call, Get, Assign or Set anywhere is emitted as *)
(* "return ", the full parenthesized text of the value and ";"; Var,       *)
(* Expression and Print statements are emitted with the full parenthesized *)
(* text of their expression.                                               *)
(***************************************************************************)
DecimalDigits == <<"0", "1", "2", "3", "4", "5", "6", "7", "8", "9">>

RECURSIVE IntegerText(_)
IntegerText(n) ==
    IF n < 0 THEN "-" \o IntegerText(0 - n)
    ELSE IF n < 10 THEN DecimalDigits[n + 1]
    ELSE IntegerText(n \div 10) \o DecimalDigits[(n % 10) + 1]

\* Built from integer literals, Binary PLUS/MINUS/MULTIPLY and Unary MINUS.
RECURSIVE IsArithmetic(_)
IsArithmetic(v) ==
    CASE v.kind = "Literal" -> v.value.t = "number" /\ v.value.d = 1
      [] v.kind = "Binary" ->
           /\ v.operator.type \in {"PLUS", "MINUS", "MULTIPLY"}
           /\ IsArithmetic(v.left)
           /\ IsArithmetic(v.right)
      [] v.kind = "Unary" ->
           v.operator.type = "MINUS" /\ IsArithmetic(v.right)
      [] OTHER -> FALSE

RECURSIVE ArithmeticValue(_)
ArithmeticValue(v) ==
    CASE v.kind = "Literal" -> v.value.n
      [] v.kind = "Unary" -> 0 - ArithmeticValue(v.right)
      [] v.operator.type = "PLUS" ->
           ArithmeticValue(v.left) + ArithmeticValue(v.right)
      [] v.operator.type = "MINUS" ->
           ArithmeticValue(v.left) - ArithmeticValue(v.right)
      [] OTHER -> ArithmeticValue(v.left) * ArithmeticValue(v.right)

\* Holds a Variable, Call, Get, Assign or Set somewhere.
HoldsReference(v) ==
    \E i \in 1..Len(Walk(<<v>>)) :
        Walk(<<v>>)[i].kind \in {"Variable", "Call", "Get", "Assign", "Set"}

\* The full text of an expression: every operation parenthesized, nothing
\* folded.
RECURSIVE FullText(_)
FullText(v) ==
    LET Arguments(args) == join([i \in 1..Len(args) |-> FullText(args[i])],
                                ", ")
    IN  CASE v.kind = "Literal" ->
               (CASE v.value.t = "null" -> "null"
                  [] v.value.t = "number" -> IntegerText(v.value.n)
                  [] v.value.t = "string" -> "\"" \o v.value.s \o "\""
                  [] OTHER -> IF v.value.b THEN "true" ELSE "false")
          [] v.kind = "Variable" -> v.name.lexeme
          [] v.kind = "Binary" ->
               "(" \o FullText(v.left) \o " " \o v.operator.lexeme \o " "
                   \o FullText(v.right) \o ")"
          [] v.kind = "Unary" ->
               "(" \o v.operator.lexeme \o FullText(v.right) \o ")"
          [] v.kind = "Call" ->
               FullText(v.callee) \o "(" \o Arguments(v.args) \o ")"
          [] v.kind = "Get" -> FullText(v.object) \o "." \o v.name.lexeme
          [] v.kind = "Assign" -> v.name.lexeme \o " = " \o FullText(v.value)
          [] OTHER ->
               FullText(v.object) \o "." \o v.name.lexeme \o " = "
                   \o FullText(v.value)

\* The statements the property speaks of.
IsFoldingCase(stmt) ==
    \/ stmt.kind \in {"Var", "Expression", "Print"}
    \/ /\ stmt.kind = "Return"
       /\ stmt.hasValue
       /\ IsArithmetic(stmt.value) \/ HoldsReference(stmt.value)

StatementText(stmt) ==
    CASE stmt.kind = "Var" ->
           "let " \o stmt.name.lexeme \o ": any = "
               \o FullText(stmt.initializer) \o ";"
      [] stmt.kind = "Expression" -> FullText(stmt.expression) \o ";"
      [] stmt.kind = "Print" ->
           "console.log(" \o FullText(stmt.expression) \o ");"
      [] OTHER ->
           IF IsArithmetic(stmt.value)
           THEN "return " \o IntegerText(ArithmeticValue(stmt.value)) \o ";"
           ELSE "return " \o FullText(stmt.value) \o ";"

FoldingOnlyAtReturn ==
    (/\ pc = "generated"
     /\ \A i \in 1..Len(parsed.val) : IsFoldingCase(parsed.val[i])) =>
        /\ output.ok
        /\ output.text
             = join([i \in 1..Len(parsed.val) |->
                        StatementText(parsed.val[i])], "\n")

\* `return 2 + 12` has been emitted as `return 14;`.
FoldingOnlyAtReturnWitness ==
    /\ pc = "generated"
    /\ Symbols = <<SymReturn, SymTwo, SymPlus, SymTwelve>>
    /\ output.ok
    /\ output.text = "return 14;"

(***************************************************************************)
(* C5.  As stated: every failure of the parser, whether a consume miss, an *)
(* invalid assignment, increment or decrement target or an unexpected      *)
(* token in primary, carries a message that includes the lexeme of the     *)
(* offending token.  The offending token of a consume miss or of an        *)
(* unexpected token is the token at the cursor; for an invalid target any  *)
(* token read so far is taken.                                             *)
(***************************************************************************)
IsInfix(part, whole) ==
    \E i \in 0..(Len(whole) - Len(part)) :
        SubSeq(whole, i + 1, i + Len(part)) = part

TargetMessages ==
    {MsgInvalidAssignmentTarget, MsgInvalidIncrementTarget,
     MsgInvalidDecrementTarget}

ExpectMessages ==
    {MsgExpectFunctionName, MsgExpectParenAfterFunctionName,
     MsgExpectParameterName, MsgExpectParenAfterParameters, MsgExpectEnd,
     MsgExpectVariableName, MsgExpectParenAfterPrint,
     MsgExpectParenAfterValue, MsgExpectPropertyName,
     MsgExpectParenAfterArguments, MsgExpectParenAfterExpression}

ParseFailed == pc = "parsed" /\ ~parsed.ok

\* The token at the cursor when the error was raised.
TokenAtFailure == peek(tokens, parsed.at)

TokensReadAtFailure == {tokens[i] : i \in 1..parsed.at}

MessageIncludesOffendingLexeme ==
    ParseFailed =>
        IF parsed.err \in TargetMessages
        THEN \E token \in TokensReadAtFailure :
                IsInfix(Chars(token.lexeme), parsed.err)
        ELSE IsInfix(Chars(TokenAtFailure.lexeme), parsed.err)

(***************************************************************************)
(* C5, amended.  A consume miss carries its message followed by " Got "    *)
(* and the lexeme of the token at the cursor, an unexpected token in       *)
(* primary carries "Unexpected token: " followed by that lexeme; an        *)
(* invalid assignment, increment or decrement target carries the fixed     *)
(* message "Invalid assignment target.", "Invalid increment target." or    *)
(* "Invalid decrement target.", raised after the operator was read, which  *)
(* names no token.                                                         *)
(***************************************************************************)
OperatorRead(types) ==
    \E i \in 1..parsed.at : tokens[i].type \in types

FailureMessages ==
    ParseFailed =>
        \/ \E message \in ExpectMessages :
              parsed.err
                = message \o MsgGot \o Chars(TokenAtFailure.lexeme)
        \/ parsed.err = MsgUnexpectedToken \o Chars(TokenAtFailure.lexeme)
        \/ /\ parsed.err = MsgInvalidAssignmentTarget
           /\ OperatorRead(AssignmentOperators)
        \/ /\ parsed.err = MsgInvalidIncrementTarget
           /\ OperatorRead({"PLUS_PLUS"})
        \/ /\ parsed.err = MsgInvalidDecrementTarget
           /\ OperatorRead({"MINUS_MINUS"})

\* `1 = 1` has failed with "Invalid assignment target.".
FailureMessagesWitness ==
    /\ ParseFailed
    /\ Symbols = <<SymOne, SymEqual, SymOne>>
    /\ parsed.err = MsgInvalidAssignmentTarget

(***************************************************************************)
(* C6.  Every AST parse returns is a tree: each node object is referenced  *)
(* by exactly one parent field or is one top-level statement, so the walk  *)
(* along the fields meets no node twice; compound assignments to a member  *)
(* and increments and decrements included.                                 *)
(***************************************************************************)
AstIsTree ==
    (pc = "parsed" /\ parsed.ok) =>
        \A i, j \in 1..Len(ParsedNodes) :
            ParsedNodes[i].id = ParsedNodes[j].id => i = j

(***************************************************************************)
(* C7.  As stated: during generate the handlers that fire are the          *)
(* pre-order walk of the whole tree: every statement and expression node   *)
(* is dispatched exactly once, to the handler of its kind, a parent before *)
(* its children and the children in the order of the fields, the nodes     *)
(* under the value of a Return included.                                   *)
(***************************************************************************)
HandlerOf(node) ==
    CASE node.kind = "Binary" -> "visitBinaryExpr"
      [] node.kind = "Unary" -> "visitUnaryExpr"
      [] node.kind = "Literal" -> "visitLiteralExpr"
      [] node.kind = "Variable" -> "visitVariableExpr"
      [] node.kind = "Call" -> "visitCallExpr"
      [] node.kind = "Get" -> "visitGetExpr"
      [] node.kind = "Assign" -> "visitAssignExpr"
      [] node.kind = "Set" -> "visitSetExpr"
      [] node.kind = "Var" -> "visitVarStmt"
      [] node.kind = "Expression" -> "visitExpressionStmt"
      [] node.kind = "Print" -> "visitPrintStmt"
      [] node.kind = "Function" -> "visitFunctionStmt"
      [] OTHER -> "visitReturnStmt"

Dispatches(nodes) ==
    [i \in 1..Len(nodes) |->
        [handler |-> HandlerOf(nodes[i]), node |-> nodes[i].id]]

HandlersFollowPreOrderWalk ==
    pc = "generated" =>
        /\ output.ok
        /\ output.fired = Dispatches(ParsedNodes)
        /\ \A i, j \in 1..Len(output.fired) :
              output.fired[i].node = output.fired[j].node => i = j

(***************************************************************************)
(* C7, amended.  The handlers that fire are the pre-order walk of the AST  *)
(* along its fields: every node is dispatched to the handler of its kind   *)
(* once for each field that refers to it, a parent before its children and *)
(* the children in the order of the fields; except that under a Return     *)
(* whose value is a literal or arithmetic on number literals, which is     *)
(* emitted folded, no handler fires for the nodes of the value.            *)
(***************************************************************************)
\* Number literals under Binary PLUS/MINUS/MULTIPLY/DIVIDE and Unary MINUS.
RECURSIVE IsNumeric(_)
IsNumeric(v) ==
    CASE v.kind = "Literal" -> v.value.t = "number"
      [] v.kind = "Binary" ->
           /\ v.operator.type \in {"PLUS", "MINUS", "MULTIPLY", "DIVIDE"}
           /\ IsNumeric(v.left)
           /\ IsNumeric(v.right)
      [] v.kind = "Unary" -> v.operator.type = "MINUS" /\ IsNumeric(v.right)
      [] OTHER -> FALSE

IsFolded(stmt) ==
    /\ stmt.kind = "Return"
    /\ stmt.hasValue
    /\ \/ stmt.value.kind = "Literal" /\ stmt.value.value.t # "null"
       \/ IsNumeric(stmt.value)

\* The pre-order walk along the fields that stops at a folded Return.
RECURSIVE WalkEmitted(_)
WalkEmitted(nodes) ==
    IF nodes = <<>> THEN <<>>
    ELSE <<Head(nodes)>>
         \o (IF IsFolded(Head(nodes)) THEN <<>>
             ELSE WalkEmitted(Children(Head(nodes))))
         \o WalkEmitted(Tail(nodes))

HandlersFollowEmittedWalk ==
    pc = "generated" =>
        /\ output.ok
        /\ output.fired = Dispatches(WalkEmitted(parsed.val))

\* A function body with a folded Return has been emitted: its value fired no
\* handler, the statements around it fired theirs.
HandlersFollowEmittedWalkWitness ==
    /\ pc = "generated"
    /\ output.ok
    /\ \E i \in 1..Len(ParsedNodes) :
          /\ IsFolded(ParsedNodes[i])
          /\ ParsedNodes[i].value.kind = "Binary"
    /\ Len(output.fired) > 2
    /\ Len(output.fired) < Len(ParsedNodes)

(***************************************************************************)
(* C8.  The constant evaluator returns, for every expression it is applied *)
(* to, a number or null and no other kind of value, so that a Return whose *)
(* value is not numerically foldable is emitted through the ordinary       *)
(* emission of its value: a returned string literal is emitted quoted.     *)
(***************************************************************************)
ReturnStatements ==
    {ParsedNodes[i] : i \in {j \in 1..Len(ParsedNodes) :
                                /\ ParsedNodes[j].kind = "Return"
                                /\ ParsedNodes[j].hasValue}}

EvaluatorYieldsNumberOrNull ==
    pc = "generated" =>
        /\ \A stmt \in ReturnStatements :
              \A i \in 1..Len(Walk(<<stmt.value>>)) :
                  evaluateExpression(Walk(<<stmt.value>>)[i]).t
                      \in {"number", "null"}
        /\ (/\ Len(parsed.val) = 1
            /\ parsed.val[1] \in ReturnStatements
            /\ ~IsNumeric(parsed.val[1].value)) =>
              /\ output.ok
              /\ output.text
                   = "return " \o FullText(parsed.val[1].value) \o ";"

(***************************************************************************)
(* C9.  As stated: whenever a declaration fails with the cursor at c, at   *)
(* top level or inside function bodies of any depth, the error reaches the *)
(* caller of parse with the cursor at the first position p >= c + 1 whose  *)
(* token is VAR, PRINT, FUNC, RETURN or EOF (at c if the token at c is the *)
(* EOF), and parse returns no statements.                                  *)
(***************************************************************************)
\* Where one synchronize takes the cursor from c.
SyncPoint(c) ==
    IF peek(tokens, c).type = "EOF" THEN c
    ELSE CHOOSE p \in (c + 1)..(Len(tokens) - 1) :
            /\ peek(tokens, p).type \in {"VAR", "PRINT", "FUNC", "RETURN",
                                         "EOF"}
            /\ \A q \in (c + 1)..(p - 1) :
                  peek(tokens, q).type \notin {"VAR", "PRINT", "FUNC",
                                               "RETURN", "EOF"}

CursorAtFirstSyncPoint ==
    ParseFailed =>
        /\ parsed.val = NoValue
        /\ parsed.cur = SyncPoint(parsed.at)

(***************************************************************************)
(* C9, amended.  Whenever a declaration fails with the cursor at c, the    *)
(* failing declaration synchronizes and re-throws, and so does every       *)
(* function declaration whose body it is in: the error reaches the caller  *)
(* of parse with the cursor where d + 1 successive synchronizations lead   *)
(* from c, d being the number of function bodies that enclose the failing  *)
(* declaration (the first synchronization point after c when d = 0), and   *)
(* parse returns no statements.                                            *)
(***************************************************************************)
RECURSIVE SyncPointAfter(_, _)
SyncPointAfter(k, c) ==
    IF k = 0 THEN c ELSE SyncPointAfter(k - 1, SyncPoint(c))

\* The tokens read when the error was raised that opened a function body:
\* a FUNC whose parameter list has been closed.
BodiesOpened ==
    {i \in 1..parsed.at :
        /\ tokens[i].type = "FUNC"
        /\ \E j \in (i + 1)..parsed.at : tokens[j].type = "RIGHT_PAREN"}

\* The END tokens read: each closed a function body.
BodiesClosed == {i \in 1..parsed.at : tokens[i].type = "END"}

\* A function declaration that misses its END fails after its body.
FailedAfterBody ==
    parsed.err = MsgExpectEnd \o MsgGot \o Chars(TokenAtFailure.lexeme)

EnclosingBodies ==
    Cardinality(BodiesOpened) - Cardinality(BodiesClosed)
        - (IF FailedAfterBody THEN 1 ELSE 0)

CursorAfterNestedSynchronize ==
    ParseFailed =>
        /\ parsed.val = NoValue
        /\ EnclosingBodies >= 0
        /\ parsed.cur = SyncPointAfter(EnclosingBodies + 1, parsed.at)

\* A declaration inside a function body has failed and the cursor has gone
\* past the first synchronization point.
CursorAfterNestedSynchronizeWitness ==
    /\ ParseFailed
    /\ EnclosingBodies > 0
    /\ parsed.cur > SyncPoint(parsed.at)

(***************************************************************************)
(* C10.  The value of a Return node is null exactly when the token right   *)
(* after its `return` keyword is END; when that token is anything else,    *)
(* EOF and statement keywords included, returnStatement stores a parsed    *)
(* expression as the value or fails.                                       *)
(***************************************************************************)
IsExpression(node) ==
    node.kind \in {"Binary", "Unary", "Literal", "Variable", "Call", "Get",
                   "Assign", "Set"}

\* returnStatement with the cursor right after a `return` keyword.
ReturnStatementAt(c) ==
    previous(tokens, c).type = "RETURN" =>
        LET r == returnStatement(tokens, c, 0)
        IN  IF peek(tokens, c).type = "END"
            THEN r.ok /\ ~r.val.hasValue /\ r.val.value = NoValue /\ r.cur = c
            ELSE r.ok =>
                    /\ r.val.hasValue
                    /\ IsExpression(r.val.value)
                    /\ r.cur > c

ReturnValueNullIffEnd ==
    pc = "parsed" =>
        /\ \A c \in 1..(Len(tokens) - 1) : ReturnStatementAt(c)
        /\ parsed.ok =>
              \A i \in 1..Len(ParsedNodes) :
                  ParsedNodes[i].kind = "Return" =>
                      LET keyword == ParsedNodes[i].keyword
                      IN  /\ keyword.line \in 1..(Len(tokens) - 1)
                          /\ tokens[keyword.line] = keyword
                          /\ keyword.type = "RETURN"
                          /\ ~ParsedNodes[i].hasValue
                               <=> tokens[keyword.line + 1].type = "END"
                          /\ ParsedNodes[i].hasValue
                               => IsExpression(ParsedNodes[i].value)

\* A function with a `return` right before its `end` and a `return` with a
\* value has been parsed.
ReturnValueNullIffEndWitness ==
    /\ pc = "parsed"
    /\ parsed.ok
    /\ \E i, j \in 1..Len(ParsedNodes) :
          /\ ParsedNodes[i].kind = "Return"
          /\ ~ParsedNodes[i].hasValue
          /\ ParsedNodes[j].kind = "Return"
          /\ ParsedNodes[j].hasValue

(***************************************************************************)
(* C11.  parse terminates on every token sequence that ends with EOF: the  *)
(* cursor never decreases and never moves past the EOF token (advance      *)
(* moves it by one, and not at all at EOF; every grammar method leaves it  *)
(* at or after the position it found it, at or before EOF, whether it      *)
(* returns or throws), a declaration that returns normally has moved it by *)
(* at least one token, so every iteration of the loop of parse and of a    *)
(* function body makes progress, and on a normal return of parse the       *)
(* cursor is at EOF.                                                       *)
(***************************************************************************)
\* The cursor at which isAtEnd first holds.
EofCursor ==
    CHOOSE c \in Cursors :
        /\ tokens[c + 1].type = "EOF"
        /\ \A d \in 0..(c - 1) : tokens[d + 1].type # "EOF"

\* A method entered at cursor c has left the cursor at r.cur; when it threw,
\* it threw at r.at.
CursorMoved(c, r) ==
    /\ c <= r.cur
    /\ r.cur <= EofCursor
    /\ ~r.ok => (c <= r.at /\ r.at <= r.cur)

AdvanceAt(c) ==
    /\ isAtEnd(tokens, c) <=> c = EofCursor
    /\ advance(tokens, c) = IF c = EofCursor THEN c ELSE c + 1

MethodsAt(c) ==
    /\ CursorMoved(c, primary(tokens, c, 0))
    /\ CursorMoved(c, expression(tokens, c, 0))
    /\ CursorMoved(c, functionBody(tokens, c, 0, <<>>))
    /\ LET r == declaration(tokens, c, 0)
       IN  /\ CursorMoved(c, r)
           /\ r.ok => r.cur >= c + 1

ParseProgress ==
    /\ pc = "constructed" =>
          /\ \A c \in 0..EofCursor : AdvanceAt(c)
          /\ \A c \in 0..EofCursor : MethodsAt(c)
    /\ pc = "parsed" =>
          /\ CursorMoved(0, parsed)
          /\ parsed.ok =>
                /\ parsed.cur = EofCursor
                /\ Len(parsed.val) <= EofCursor

\* parse has returned a function whose body loop ran twice and a statement
\* after it, with the cursor at EOF.
ParseProgressWitness ==
    /\ pc = "parsed"
    /\ parsed.ok
    /\ parsed.cur = EofCursor
    /\ Len(parsed.val) >= 2
    /\ parsed.val[1].kind = "Function"
    /\ Len(parsed.val[1].body) >= 2

====
